---- MODULE Spec2Model ----
(***************************************************************************)
(* Model of predictor/predictor.py: the shape/batch inference of Predictor *)
(* and the BilinearFeaturePredictor wrapper around the bilinear model; of  *)
(* the data collection loop of generate_data.py; and of the two output-    *)
(* suppressing context managers of visual_dynamics/utils/util.py.          *)
(*                                                                         *)
(* A numpy array is a record [shape, data]: shape is the tuple of its      *)
(* dimensions, data its elements in row-major order.  A Python call is an  *)
(* outcome record [exc, val]: exc = "none" and val the returned value, or  *)
(* exc the name of the exception that leaves the call.                     *)
(***************************************************************************)
EXTENDS Integers, Sequences, FiniteSets, TLC

\* pred: the Predictor whose batch_size is called.
\* bfp:  the BilinearFeaturePredictor whose methods are called.
\* call: the call the caller made last and its outcome, or NoCall.
\* readers: the predict / jacobian_control calls in progress, one per reader.
\* gen:  the run of generate_data.main.
\* fds:  the process's file descriptors and the output-suppressing manager.
VARIABLES pred, bfp, call, readers, gen, fds

vars == <<pred, bfp, call, readers, gen, fds>>

\* ------------------------------------------------------------- bounds
MaxDim == 2        \* every dimension of an argument array is in 0..MaxDim
MaxRank == 2       \* an argument array has at most MaxRank dimensions
MaxArgs == 2       \* batch_size is called with 0..MaxArgs arrays
MaxSeed == 2       \* element patterns of an array, parameter sets of a model
NumReaders == 2    \* concurrent callers of predict and jacobian_control
MaxTrajs == 2      \* --num_trajs is in 0..MaxTrajs
MaxSteps == 2      \* --num_steps is in 0..MaxSteps
MaxFd == 8         \* the process has the file descriptors 0..MaxFd

\* ------------------------------------------------------------- tuples
Min2(a, b) == IF a <= b THEN a ELSE b

\* Python's t[1:]: the empty tuple stays empty.
Slice1(t) == IF Len(t) = 0 THEN <<>> ELSE Tail(t)

RECURSIVE Prod(_)
\* np.prod of a tuple (1 for the empty tuple).
Prod(t) == IF Len(t) = 0 THEN 1 ELSE Head(t) * Prod(Tail(t))

RECURSIVE TuplesUpTo(_, _)
\* All tuples of at most r elements of S.
TuplesUpTo(S, r) ==
    IF r = 0 THEN {<<>>}
    ELSE LET T == TuplesUpTo(S, r - 1)
         IN  T \cup {<<x>> \o t : x \in S, t \in {u \in T : Len(u) = r - 1}}

\* The shapes an argument array may have.
ArrShapes == TuplesUpTo(0..MaxDim, MaxRank)

\* The array of a shape whose elements follow pattern seed.
Arr(shape, seed) ==
    [shape |-> shape, data |-> [i \in 1..Prod(shape) |-> (i * seed) % 3]]

Arrays == {Arr(s, d) : s \in ArrShapes, d \in 1..MaxSeed}

\* numpy's A[i] (i from 1) for an array of at least one dimension: the i-th
\* entry along the leading dimension.
Sample(A, i) ==
    LET w == Prod(Tail(A.shape))
    IN  [shape |-> Tail(A.shape), data |-> [j \in 1..w |-> A.data[(i - 1) * w + j]]]

\* ------------------------------------------------------------- outcomes
Ret(v) == [exc |-> "none", val |-> v]
Raise(e) == [exc |-> e, val |-> 0]

\* ------------------------------------------------------------- Transformer
\* utils.Transformer(): the identity transformation by default.
Transformer_preprocess_shape(shape) == shape

\* Transformer.preprocess of the identity transformation.
Transformer_preprocess(input_) == input_

\* ------------------------------------------------------------- Predictor
\* Predictor.__init__ on an instance of class cls: the attributes it binds.
Predictor_init(cls, input_names, input_shapes) ==
    [input_names |-> input_names,
     input_shapes |-> input_shapes,
     preprocessed_input_shapes |->
        [i \in 1..Min2(Len(input_names), Len(input_shapes)) |->
            Transformer_preprocess_shape(input_shapes[i])],
     transformers |-> [n \in {input_names[i] : i \in 1..Len(input_names)} |->
                          "Transformer"],
     name |-> cls]

\* BatchSizeStep with the batch size of a batched first argument taken from
\* the number of its dimensions instead of its leading dimension.
BatchSizeStep_len(batch_size, input_, shape) ==
    IF batch_size = -1
    THEN IF input_.shape = shape THEN Ret(0)
         ELSE IF Slice1(input_.shape) = shape THEN Ret(Len(input_.shape))
         ELSE Raise("ValueError")
    ELSE IF input_.shape = shape \/ input_.shape = <<batch_size>> \o shape
         THEN Ret(batch_size)
         ELSE Raise("ValueError")

\* One iteration of the loop of batch_size on one (input_, shape) pair, from
\* the batch size found so far: the new batch size, or the ValueError.
BatchSizeStep(batch_size, input_, shape) ==
    IF batch_size = -1
    THEN IF input_.shape = shape THEN Ret(0)
         ELSE IF Slice1(input_.shape) = shape THEN Ret(input_.shape[1])
         ELSE Raise("ValueError")
    ELSE IF input_.shape = shape \/ input_.shape = <<batch_size>> \o shape
         THEN Ret(batch_size)
         ELSE Raise("ValueError")

RECURSIVE BatchSizeLoop(_, _, _, _)
\* The for loop over zip(inputs, input_shapes), from pair i on.
BatchSizeLoop(inputs, input_shapes, i, batch_size) ==
    IF i > Min2(Len(inputs), Len(input_shapes)) THEN Ret(batch_size)
    ELSE LET r == BatchSizeStep(batch_size, inputs[i], input_shapes[i])
         IN  IF r.exc # "none" THEN r
             ELSE BatchSizeLoop(inputs, input_shapes, i + 1, r.val)

\* Predictor.batch_size(*inputs, preprocessed=...).
batch_size(self, inputs, preprocessed) ==
    LET input_shapes == IF preprocessed THEN self.preprocessed_input_shapes
                        ELSE self.input_shapes
    IN  BatchSizeLoop(inputs, input_shapes, 1, -1)

\* The least of a non-empty set of numbers.
SetMin(S) == CHOOSE m \in S : \A x \in S : m <= x

\* np.asarray of a list of n arrays of one shape: the array of shape (n,)+shape.
asarray(list, n) ==
    LET w == Prod(list[1].shape)
    IN  [shape |-> <<n>> \o list[1].shape,
         data |-> [j \in 1..(n * w) |->
                      list[((j - 1) \div w) + 1].data[((j - 1) % w) + 1]]]

RECURSIVE preprocess(_, _)
\* Predictor.preprocess(*inputs).  With batch size 0 each input goes through
\* the transformer of its name.  Otherwise zip(*inputs) walks the inputs along
\* their leading dimension together (a 0-d array cannot be iterated:
\* TypeError), preprocess is called on each tuple of entries, and the results
\* are regrouped per input and stacked.
preprocess(self, inputs) ==
    LET bs == batch_size(self, inputs, FALSE)
    IN  IF bs.exc # "none" THEN bs
        ELSE IF bs.val = 0
        THEN Ret([k \in 1..Min2(Len(self.input_names), Len(inputs)) |->
                     Transformer_preprocess(inputs[k])])
        ELSE IF \E k \in 1..Len(inputs) : Len(inputs[k].shape) = 0
        THEN Raise("TypeError")
        ELSE LET n == IF Len(inputs) = 0 THEN 0
                      ELSE SetMin({inputs[k].shape[1] : k \in 1..Len(inputs)})
                 rec == [i \in 1..n |->
                            preprocess(self, [k \in 1..Len(inputs) |->
                                                 Sample(inputs[k], i)])]
                 failed == {i \in 1..n : rec[i].exc # "none"}
             IN  IF failed # {} THEN rec[SetMin(failed)]
                 ELSE IF n = 0 THEN Ret(<<>>)
                 ELSE LET m == SetMin({Len(rec[i].val) : i \in 1..n})
                      IN  Ret([k \in 1..m |->
                                  asarray([i \in 1..n |-> rec[i].val[k]], n)])

\* Predictor.jacobian: not implemented by the base class.
Predictor_jacobian(self, name, wrt_name, inputs, preprocessed) ==
    Raise("NotImplementedError")

\* ------------------------------------------------------------- FeaturePredictor
\* FeaturePredictor.__init__(input_names, input_shapes) with the default names.
FeaturePredictor_init(cls, input_names, input_shapes) ==
    [feature_name |-> "y", next_feature_name |-> "y_next_pred",
     control_name |-> "u"] @@ Predictor_init(cls, input_names, input_shapes)

\* ------------------------------------------------------------- BilinearFunction
\* The parameter tensors Q (Dy,Dy,Du), R (Dy,Du), S (Dy,Dy), b (Dy,) of
\* parameter set seed; set 0 is the all-zero set of a new model.
Params(seed, y_dim, u_dim) ==
    [Q |-> [d \in 1..y_dim |-> [j \in 1..y_dim |-> [k \in 1..u_dim |->
                (seed * (d + j + k)) % 3]]],
     R |-> [d \in 1..y_dim |-> [k \in 1..u_dim |-> (seed * (d + 2 * k)) % 3]],
     S |-> [d \in 1..y_dim |-> [j \in 1..y_dim |-> (seed * (2 * d + j)) % 3]],
     b |-> [d \in 1..y_dim |-> (seed * d) % 3]]

\* bilinear.BilinearFunction.__init__(y_dim, u_dim).
BilinearFunction_init(y_dim, u_dim) ==
    [y_dim |-> y_dim, u_dim |-> u_dim] @@ Params(0, y_dim, u_dim)

RECURSIVE Sum(_, _, _)
\* The sum of f[lo] .. f[hi].
Sum(f, lo, hi) == IF lo > hi THEN 0 ELSE f[lo] + Sum(f, lo + 1, hi)

\* Row n (from 1) of a row-major array of rows of length w.
Row(data, n, w) == [j \in 1..w |-> data[(n - 1) * w + j]]

\* The predicted rate of one sample:
\* sum_k Q[:,:,k] y u[k] + S y + R u + b.
EvalOne(self, y, u) ==
    [d \in 1..self.y_dim |->
        Sum([j \in 1..self.y_dim |->
                Sum([k \in 1..self.u_dim |-> self.Q[d][j][k] * y[j] * u[k]],
                    1, self.u_dim)], 1, self.y_dim)
        + Sum([j \in 1..self.y_dim |-> self.S[d][j] * y[j]], 1, self.y_dim)
        + Sum([k \in 1..self.u_dim |-> self.R[d][k] * u[k]], 1, self.u_dim)
        + self.b[d]]

\* The control Jacobian of one sample, row-major (Dy, Du):
\* row d is y^T Q[d,:,:] + R[d,:].
JacOne(self, y) ==
    [i \in 1..(self.y_dim * self.u_dim) |->
        LET d == ((i - 1) \div self.u_dim) + 1
            k == ((i - 1) % self.u_dim) + 1
        IN  Sum([j \in 1..self.y_dim |-> y[j] * self.Q[d][j][k]], 1, self.y_dim)
            + self.R[d][k]]

\* The rows of a batch, one after the other.
Concat(rows, n, w) ==
    [i \in 1..(n * w) |-> rows[((i - 1) \div w) + 1][((i - 1) % w) + 1]]

\* A control array is one sample (Du,) or (Du,1), or a batch of N of them.
IsControl(U, u_dim, lead) ==
    U.shape = lead \o <<u_dim>> \/ U.shape = lead \o <<u_dim, 1>>

\* BilinearFunction.eval(Y, U): the forward prediction for one sample or a
\* batch; arrays of other shapes are a shape mismatch.
eval(self, Y, U) ==
    IF Y.shape = <<self.y_dim>> /\ IsControl(U, self.u_dim, <<>>)
    THEN Ret([shape |-> <<self.y_dim>>, data |-> EvalOne(self, Y.data, U.data)])
    ELSE IF Len(Y.shape) = 2 /\ Y.shape[2] = self.y_dim
            /\ IsControl(U, self.u_dim, <<Y.shape[1]>>)
    THEN LET N == Y.shape[1]
             rows == [n \in 1..N |->
                        EvalOne(self, Row(Y.data, n, self.y_dim),
                                Row(U.data, n, self.u_dim))]
         IN  Ret([shape |-> <<N, self.y_dim>>,
                  data |-> Concat(rows, N, self.y_dim)])
    ELSE Raise("ValueError")

\* BilinearFunction.jac_u(Y): the control Jacobian, (Dy,Du) for one sample
\* and (N,Dy,Du) for a batch.
jac_u(self, Y) ==
    IF Y.shape = <<self.y_dim>>
    THEN Ret([shape |-> <<self.y_dim, self.u_dim>>, data |-> JacOne(self, Y.data)])
    ELSE IF Len(Y.shape) = 2 /\ Y.shape[2] = self.y_dim
    THEN LET N == Y.shape[1]
             w == self.y_dim * self.u_dim
             rows == [n \in 1..N |-> JacOne(self, Row(Y.data, n, self.y_dim))]
         IN  Ret([shape |-> <<N, self.y_dim, self.u_dim>>,
                  data |-> Concat(rows, N, w)])
    ELSE Raise("ValueError")

\* BilinearFunction.fit(Y, U, Y_dot): on batches of one common size the four
\* tensors are overwritten together by the least-squares solution, here the
\* parameter set fitted; the outcome's val is the instance afterwards.
fit(self, Y, U, Y_dot, fitted) ==
    IF Len(Y.shape) = 2 /\ Y.shape[2] = self.y_dim
       /\ IsControl(U, self.u_dim, <<Y.shape[1]>>)
       /\ Y_dot.shape = Y.shape
    THEN Ret([self EXCEPT !.Q = Params(fitted, self.y_dim, self.u_dim).Q,
                          !.R = Params(fitted, self.y_dim, self.u_dim).R,
                          !.S = Params(fitted, self.y_dim, self.u_dim).S,
                          !.b = Params(fitted, self.y_dim, self.u_dim).b])
    ELSE Raise("ValueError")

\* ------------------------------------------------------------- BilinearFeaturePredictor
\* A constructor that binds the two shapes and returns without checking the
\* control shape.
BilinearFeaturePredictor_init_unchecked(x_shape, u_shape) ==
    Ret([x_shape |-> x_shape, u_shape |-> u_shape,
         y_dim |-> Prod(x_shape),
         u_dim |-> IF Len(u_shape) = 0 THEN 1 ELSE u_shape[1]]
        @@ Params(0, Prod(x_shape), IF Len(u_shape) = 0 THEN 1 ELSE u_shape[1])
        @@ FeaturePredictor_init("BilinearFeaturePredictor", x_shape, u_shape))

\* BilinearFeaturePredictor.__init__(x_shape, u_shape).  The base constructor
\* receives the two shapes as input_names and input_shapes; an attribute that
\* no constructor has bound is an AttributeError when read.  The outcome's val
\* is the constructed instance.
BilinearFeaturePredictor_init(x_shape, u_shape) ==
    LET self == FeaturePredictor_init("BilinearFeaturePredictor", x_shape, u_shape)
    IN  IF "x_shape" \notin DOMAIN self THEN Raise("AttributeError")
        ELSE IF "u_shape" \notin DOMAIN self THEN Raise("AttributeError")
        ELSE IF ~(Len(self.u_shape) = 1
                  \/ (Len(self.u_shape) = 2 /\ self.u_shape[2] = 1))
        THEN Raise("AssertionError")
        ELSE Ret(BilinearFunction_init(Prod(self.x_shape), self.u_shape[1])
                 @@ self)

\* BilinearFeaturePredictor.flatten(X).
flatten(self, X) ==
    LET is_batched == Slice1(X.shape) = self.x_shape
    IN  IF is_batched
        THEN IF Len(X.shape) = 0 THEN Raise("IndexError")
             ELSE IF X.shape[1] = 0 THEN Raise("ValueError")
             ELSE Ret([shape |-> <<X.shape[1], Prod(X.shape) \div X.shape[1]>>,
                       data |-> X.data])
        ELSE Ret([shape |-> <<Prod(X.shape)>>, data |-> X.data])

\* BilinearFeaturePredictor.train(X, U, Y_dot); val is the instance afterwards.
train(self, X, U, Y_dot, fitted) ==
    LET Y == flatten(self, X)
    IN  IF Y.exc # "none" THEN Y ELSE fit(self, Y.val, U, Y_dot, fitted)

\* BilinearFeaturePredictor.predict(X, U).
predict(self, X, U) ==
    LET Y == flatten(self, X)
    IN  IF Y.exc # "none" THEN Y ELSE eval(self, Y.val, U)

\* jacobian_control with the forward prediction returned in place of the
\* Jacobian.
jacobian_control_eval(self, X, U) ==
    LET Y == flatten(self, X)
    IN  IF Y.exc # "none" THEN Y ELSE eval(self, Y.val, U)

\* BilinearFeaturePredictor.jacobian_control(X, U).
jacobian_control(self, X, U) ==
    LET Y == flatten(self, X)
    IN  IF Y.exc # "none" THEN Y ELSE jac_u(self, Y.val)

\* self.predict(*args, **kwargs) on a BilinearFeaturePredictor: the name
\* resolves to predict(self, X, U), which takes exactly two positional
\* arguments and no keyword.
Call_predict(self, args, kwargs) ==
    IF Len(args) # 2 \/ kwargs # {} THEN Raise("TypeError")
    ELSE predict(self, args[1], args[2])

\* FeaturePredictor.feature(X, preprocessed=False) on the instance.
feature(self, X) ==
    Call_predict(self, <<self.feature_name, X>>, {"preprocessed"})

\* FeaturePredictor.next_feature(X, U, preprocessed=False) on the instance.
next_feature(self, X, U) ==
    Call_predict(self, <<self.next_feature_name, X, U>>, {"preprocessed"})

\* FeaturePredictor.feature_jacobian(X, U, preprocessed=False) on the
\* instance: self.jacobian resolves to Predictor.jacobian; val is the pair
\* (jac, next_feature).
feature_jacobian(self, X, U) ==
    LET jac == Predictor_jacobian(self, self.next_feature_name,
                                  self.control_name, <<X, U>>, FALSE)
    IN  IF jac.exc # "none" THEN jac
        ELSE LET nf == next_feature(self, X, U)
             IN  IF nf.exc # "none" THEN nf ELSE Ret(<<jac.val, nf.val>>)

\* ------------------------------------------------------------- state machine
\* The per-sample shapes a predictor is declared with.
SampleShapes == TuplesUpTo(1..MaxDim, MaxRank - 1)

\* The control shapes a BilinearFeaturePredictor is asked to be built with.
ControlShapes == TuplesUpTo(1..MaxDim, MaxRank)

\* The control shapes line 150 asserts: (Du,) or (Du,1).
IsControlShape(u_shape) ==
    Len(u_shape) = 1 \/ (Len(u_shape) = 2 /\ u_shape[2] = 1)

\* The arrays whose elements follow pattern 1, one per shape.
Arrays1 == {Arr(s, 1) : s \in ArrShapes}

\* The lists of declared input shapes, and the names given with them.
InputShapeLists == TuplesUpTo(SampleShapes, MaxArgs) \ {<<>>}
InputNameLists == {<<"x">>, <<"x", "u">>}

\* The argument lists of a batch_size call.
InputLists == TuplesUpTo(Arrays1, MaxArgs)

\* A BilinearFeaturePredictor in use: the attributes the base constructors
\* bind (line 148), x_shape and u_shape holding the two per-sample shapes that
\* lines 149-151 and 168 read, y_dim = np.prod(x_shape) and u_dim = u_shape[0]
\* as lines 149-152 compute them, and Q, R, S, b of parameter set seed.
BilinearInstance(x_shape, u_shape, seed) ==
    Params(seed, Prod(x_shape), u_shape[1])
    @@ [x_shape |-> x_shape, u_shape |-> u_shape,
        y_dim |-> Prod(x_shape), u_dim |-> u_shape[1]]
    @@ FeaturePredictor_init("BilinearFeaturePredictor", x_shape, u_shape)

BilinearInstances ==
    {BilinearInstance(xs, us, p) :
        xs \in SampleShapes, us \in {u \in ControlShapes : IsControlShape(u)},
        p \in 0..MaxSeed}

NoCall == [op |-> "none", args |-> <<>>, flag |-> FALSE, out |-> Ret(0)]

Called(op, args, flag, out) ==
    [op |-> op, args |-> args, flag |-> flag, out |-> out]

\* The caller has taken the outcome of its last call.
Return ==
    /\ call.op # "none"
    /\ call' = NoCall
    /\ UNCHANGED <<pred, bfp, readers, gen, fds>>

\* pred.batch_size(*inputs, preprocessed=preprocessed)
BatchSize ==
    /\ call.op = "none"
    /\ \E inputs \in InputLists, preprocessed \in BOOLEAN :
        /\ call' = Called("batch_size", inputs, preprocessed,
                          batch_size(pred, inputs, preprocessed))
        /\ UNCHANGED <<pred, bfp, readers, gen, fds>>

\* pred.preprocess(*inputs)
Preprocess ==
    /\ call.op = "none"
    /\ \E inputs \in InputLists :
        /\ call' = Called("preprocess", inputs, FALSE, preprocess(pred, inputs))
        /\ UNCHANGED <<pred, bfp, readers, gen, fds>>

\* BilinearFeaturePredictor(x_shape, u_shape): the name is bound to the new
\* instance only when the constructor returns.
Construct ==
    /\ call.op = "none"
    /\ \E x_shape \in SampleShapes, u_shape \in ControlShapes :
        LET out == BilinearFeaturePredictor_init(x_shape, u_shape)
        IN  /\ call' = Called("__init__", <<x_shape, u_shape>>, FALSE, out)
            /\ bfp' = IF out.exc = "none" THEN out.val ELSE bfp
            /\ UNCHANGED <<pred, readers, gen, fds>>

\* bfp.train(X, U, Y_dot)
Train ==
    /\ call.op = "none"
    /\ \E X \in Arrays1, U \in Arrays1, Y_dot \in Arrays1, fitted \in 1..MaxSeed :
        LET out == train(bfp, X, U, Y_dot, fitted)
        IN  /\ call' = Called("train", <<X, U, Y_dot>>, FALSE,
                              IF out.exc = "none" THEN Ret(0) ELSE out)
            /\ bfp' = IF out.exc = "none" THEN out.val ELSE bfp
            /\ UNCHANGED <<pred, readers, gen, fds>>

\* bfp.predict(X, U)
Predict ==
    /\ call.op = "none"
    /\ \E X \in Arrays, U \in Arrays :
        /\ call' = Called("predict", <<X, U>>, FALSE, predict(bfp, X, U))
        /\ UNCHANGED <<pred, bfp, readers, gen, fds>>

\* bfp.jacobian_control(X, U)
JacobianControl ==
    /\ call.op = "none"
    /\ \E X \in Arrays, U \in Arrays :
        /\ call' = Called("jacobian_control", <<X, U>>, FALSE,
                          jacobian_control(bfp, X, U))
        /\ UNCHANGED <<pred, bfp, readers, gen, fds>>

\* bfp.flatten(X)
Flatten ==
    /\ call.op = "none"
    /\ \E X \in Arrays :
        /\ call' = Called("flatten", <<X>>, FALSE, flatten(bfp, X))
        /\ UNCHANGED <<pred, bfp, readers, gen, fds>>

\* bfp.feature(X)
Feature ==
    /\ call.op = "none"
    /\ \E X \in Arrays :
        /\ call' = Called("feature", <<X>>, FALSE, feature(bfp, X))
        /\ UNCHANGED <<pred, bfp, readers, gen, fds>>

\* bfp.next_feature(X, U)
NextFeature ==
    /\ call.op = "none"
    /\ \E X \in Arrays, U \in Arrays :
        /\ call' = Called("next_feature", <<X, U>>, FALSE,
                          next_feature(bfp, X, U))
        /\ UNCHANGED <<pred, bfp, readers, gen, fds>>

\* bfp.feature_jacobian(X, U)
FeatureJacobian ==
    /\ call.op = "none"
    /\ \E X \in Arrays, U \in Arrays :
        /\ call' = Called("feature_jacobian", <<X, U>>, FALSE,
                          feature_jacobian(bfp, X, U))
        /\ UNCHANGED <<pred, bfp, readers, gen, fds>>

\* ------------------------------------------------------------- concurrent readers
\* The callers that read one shared BilinearFeaturePredictor.
Readers == 1..NumReaders

\* The arrays the readers and the writer pass: one sample and a batch of two
\* observations of shape (MaxDim,), and their controls.
ReaderXs == {Arr(<<MaxDim>>, 1), Arr(<<2, MaxDim>>, 1)}
ReaderUs == {Arr(<<1>>, 1), Arr(<<2, 1>>, MaxSeed)}

\* The shared instance, under each parameter set.
ReaderInstances == {BilinearInstance(<<MaxDim>>, <<1>>, p) : p \in 0..MaxSeed}

NoArray == Arr(<<>>, 1)

\* A reader outside a call.
IdleReader ==
    [pc |-> "idle", op |-> "none", self0 |-> BilinearInstance(<<1>>, <<1>>, 0),
     X |-> NoArray, U |-> NoArray, Y |-> NoArray, out |-> Ret(NoArray),
     clean |-> TRUE]

\* Reader r calls predict(X, U) or jacobian_control(X, U).  self0 keeps the
\* instance as it is when the call begins; clean turns FALSE when a train
\* runs before the call has returned.
ReaderCall ==
    \E r \in Readers, op \in {"predict", "jacobian_control"},
       X \in ReaderXs, U \in ReaderUs :
        /\ readers[r].pc = "idle"
        /\ readers' = [readers EXCEPT ![r] =
                          [pc |-> "flatten", op |-> op, self0 |-> bfp,
                           X |-> X, U |-> U, Y |-> NoArray,
                           out |-> Ret(NoArray), clean |-> TRUE]]
        /\ UNCHANGED <<pred, bfp, call, gen, fds>>

\* Y = self.flatten(X), the first line of predict and of jacobian_control.
ReaderFlatten ==
    \E r \in Readers :
        /\ readers[r].pc = "flatten"
        /\ LET Y == flatten(bfp, readers[r].X)
           IN  readers' = [readers EXCEPT ![r] =
                   IF Y.exc # "none"
                   THEN [readers[r] EXCEPT !.pc = "done", !.out = Y]
                   ELSE [readers[r] EXCEPT !.pc = "eval", !.Y = Y.val]]
        /\ UNCHANGED <<pred, bfp, call, gen, fds>>

\* ReaderEval with the evaluation clearing the offset b of the instance.
ReaderEval_writes ==
    \E r \in Readers :
        /\ readers[r].pc = "eval"
        /\ readers' = [readers EXCEPT ![r] =
               [readers[r] EXCEPT
                   !.pc = "done",
                   !.out = IF readers[r].op = "predict"
                           THEN eval(bfp, readers[r].Y, readers[r].U)
                           ELSE jac_u(bfp, readers[r].Y)]]
        /\ bfp' = [bfp EXCEPT !.b = [d \in 1..bfp.y_dim |-> 0]]
        /\ UNCHANGED <<pred, call, gen, fds>>

\* return self.bilinear.eval(Y, U) / return self.bilinear.jac_u(Y): the
\* parameters are read when this line runs.
ReaderEval ==
    \E r \in Readers :
        /\ readers[r].pc = "eval"
        /\ readers' = [readers EXCEPT ![r] =
               [readers[r] EXCEPT
                   !.pc = "done",
                   !.out = IF readers[r].op = "predict"
                           THEN eval(bfp, readers[r].Y, readers[r].U)
                           ELSE jac_u(bfp, readers[r].Y)]]
        /\ UNCHANGED <<pred, bfp, call, gen, fds>>

\* Reader r has taken its result.
ReaderReturn ==
    \E r \in Readers :
        /\ readers[r].pc = "done"
        /\ readers' = [readers EXCEPT ![r] = IdleReader]
        /\ UNCHANGED <<pred, bfp, call, gen, fds>>

\* The writer calls train(X, U, Y_dot) on the shared instance while readers
\* may be inside a call.
ReaderTrain ==
    \E U \in ReaderUs, fitted \in 1..MaxSeed :
        LET X == Arr(<<2, MaxDim>>, 1)
            out == train(bfp, X, U, Arr(<<2, MaxDim>>, MaxSeed), fitted)
        IN  /\ bfp' = IF out.exc = "none" THEN out.val ELSE bfp
            /\ readers' = [r \in Readers |->
                   IF readers[r].pc \in {"flatten", "eval"}
                   THEN [readers[r] EXCEPT !.clean = FALSE]
                   ELSE readers[r]]
            /\ UNCHANGED <<pred, call, gen, fds>>

\* ------------------------------------------------------------- generate_data.main
\* A slot of the output container: the sensor/state datum or the
\* action/state_diff datum of trajectory i at time step t (both from 0).
Slot(kind, i, t) == <<kind, i, t>>

\* container.add_datum(traj_iter, step_iter, ...) for the names of one kind:
\* the run g after the datum is written; rewritten collects the slots that
\* are written again.
add_datum(g, kind, i, t) ==
    [g EXCEPT !.written = @ \cup {Slot(kind, i, t)},
              !.rewritten = @ \cup ({Slot(kind, i, t)} \cap g.written)]

\* main after parse_args and the loading of env and policy (lines 12-37).
StartRun(N, T, output_dir, visualize, record_file) ==
    [pc |-> "reserve", N |-> N, T |-> T, output_dir |-> output_dir,
     visualize |-> visualize, record_file |-> record_file,
     container |-> FALSE, writer |-> FALSE, traj_iter |-> 0, step_iter |-> 0,
     done |-> FALSE, interrupted |-> FALSE, grabbed |-> FALSE,
     written |-> {}, rewritten |-> {}, cleanup |-> <<>>]

\* Lines 39-47: the container is created and its slots reserved when an
\* output directory is given, and is None otherwise.
Reserve ==
    /\ gen.pc = "reserve"
    /\ gen' = [gen EXCEPT !.pc = "visualize", !.container = gen.output_dir]
    /\ UNCHANGED <<pred, bfp, call, readers, fds>>

\* SetupVisualize without lines 49-50: recording does not switch the
\* visualization on.
SetupVisualize_nodefault ==
    /\ gen.pc = "visualize"
    /\ gen' = [gen EXCEPT !.pc = "traj",
                          !.writer = gen.visualize /\ gen.record_file]
    /\ UNCHANGED <<pred, bfp, call, readers, fds>>

\* Lines 49-60: a record file turns the visualization on; the writer is set
\* up when visualizing with a record file.
SetupVisualize ==
    /\ gen.pc = "visualize"
    /\ LET visualize == gen.visualize \/ gen.record_file
       IN  gen' = [gen EXCEPT !.pc = "traj", !.visualize = visualize,
                              !.writer = visualize /\ gen.record_file]
    /\ UNCHANGED <<pred, bfp, call, readers, fds>>

\* Lines 65-69: the next trajectory begins with the resets, or the loop over
\* the trajectories is exhausted.
NextTraj ==
    /\ gen.pc = "traj"
    /\ gen' = IF gen.traj_iter < gen.N
              THEN [gen EXCEPT !.pc = "step", !.step_iter = 0]
              ELSE [gen EXCEPT !.pc = "close"]
    /\ UNCHANGED <<pred, bfp, call, readers, fds>>

\* Line 70 (and 93 with done false): the next step of the trajectory, or the
\* loop over the steps is exhausted and the next trajectory follows.
NextStep ==
    /\ gen.pc = "step"
    /\ gen' = IF gen.step_iter < gen.T
              THEN [gen EXCEPT !.pc = "add_obs"]
              ELSE [gen EXCEPT !.pc = "traj", !.traj_iter = @ + 1]
    /\ UNCHANGED <<pred, bfp, call, readers, fds>>

\* Lines 71-72: the state and the observations of the current step.
AddObservation ==
    /\ gen.pc = "add_obs"
    /\ gen' = [(IF gen.container
                THEN add_datum(gen, "sensor", gen.traj_iter, gen.step_iter)
                ELSE gen) EXCEPT !.pc = "act"]
    /\ UNCHANGED <<pred, bfp, call, readers, fds>>

\* Lines 74-75: the policy acts and the environment steps.
Act ==
    /\ gen.pc = "act"
    /\ gen' = [gen EXCEPT !.pc = "add_action"]
    /\ UNCHANGED <<pred, bfp, call, readers, fds>>

\* Lines 77-81: the action and the state difference of the step, and after
\* the last step the final state and observations.
AddAction ==
    /\ gen.pc = "add_action"
    /\ LET g1 == IF gen.container
                 THEN add_datum(gen, "action", gen.traj_iter, gen.step_iter)
                 ELSE gen
           g2 == IF gen.container /\ gen.step_iter = gen.T - 1
                 THEN add_datum(g1, "sensor", gen.traj_iter, gen.step_iter + 1)
                 ELSE g1
       IN  gen' = [g2 EXCEPT !.pc = "render"]
    /\ UNCHANGED <<pred, bfp, call, readers, fds>>

\* Lines 83-94: when visualizing, the frame is shown and grabbed for the
\* record file; any exception of the two calls (an unbound writer is a
\* NameError) sets done, and done leaves both loops.
Render ==
    /\ gen.pc = "render"
    /\ \E fails \in BOOLEAN :
        LET raised == fails \/ (gen.record_file /\ ~gen.writer)
        IN  gen' = IF ~gen.visualize
                   THEN [gen EXCEPT !.pc = "step", !.step_iter = @ + 1]
                   ELSE IF raised
                   THEN [gen EXCEPT !.pc = "close", !.done = TRUE]
                   ELSE [gen EXCEPT !.pc = "step", !.step_iter = @ + 1,
                                    !.grabbed = @ \/ gen.record_file]
    /\ UNCHANGED <<pred, bfp, call, readers, fds>>

\* Lines 67, 95-96: a KeyboardInterrupt raised inside the try block of a
\* trajectory leaves the loop over the trajectories.
KeyboardInterrupt ==
    /\ \/ gen.pc \in {"step", "add_obs", "act", "add_action", "render"}
       \/ gen.pc = "traj" /\ gen.traj_iter < gen.N
    /\ gen' = [gen EXCEPT !.pc = "close", !.interrupted = TRUE]
    /\ UNCHANGED <<pred, bfp, call, readers, fds>>

\* Line 97.
EnvClose ==
    /\ gen.pc = "close"
    /\ gen' = [gen EXCEPT !.pc = "finish", !.cleanup = Append(@, "env.close")]
    /\ UNCHANGED <<pred, bfp, call, readers, fds>>

\* Lines 98-99: with a record file the writer is finished; an unbound writer
\* is a NameError that ends main.
WriterFinish ==
    /\ gen.pc = "finish"
    /\ gen' = IF ~gen.record_file THEN [gen EXCEPT !.pc = "container_close"]
              ELSE IF ~gen.writer THEN [gen EXCEPT !.pc = "crashed"]
              ELSE [gen EXCEPT !.pc = "container_close",
                               !.cleanup = Append(@, "writer.finish")]
    /\ UNCHANGED <<pred, bfp, call, readers, fds>>

\* Lines 100-101.
ContainerClose ==
    /\ gen.pc = "container_close"
    /\ gen' = [gen EXCEPT !.pc = "done",
                          !.cleanup = IF gen.container
                                      THEN Append(@, "container.close") ELSE @]
    /\ UNCHANGED <<pred, bfp, call, readers, fds>>

\* ------------------------------------------------------------- util.suppress_stdout
\* The descriptor table of the process: what each descriptor 0..MaxFd refers
\* to, or "closed".
Fds == 0..MaxFd

\* The lowest descriptor that is free, or -1 when the table is full.
LowestFree(table) ==
    IF \E fd \in Fds : table[fd] = "closed"
    THEN SetMin({fd \in Fds : table[fd] = "closed"})
    ELSE -1

\* One call of os.open(os.devnull, ...), os.dup(a), os.dup2(a, b) or
\* os.close(a) on a table: the exception or "none", the table afterwards and
\* the descriptor returned (-1 when none is).
Syscall(table, c) ==
    IF c.op = "open"
    THEN LET fd == LowestFree(table)
         IN  IF fd = -1 THEN [exc |-> "EMFILE", table |-> table, fd |-> -1]
             ELSE [exc |-> "none", table |-> [table EXCEPT ![fd] = "null"],
                   fd |-> fd]
    ELSE IF table[c.a] = "closed"
    THEN [exc |-> "EBADF", table |-> table, fd |-> -1]
    ELSE IF c.op = "dup"
    THEN LET fd == LowestFree(table)
         IN  IF fd = -1 THEN [exc |-> "EMFILE", table |-> table, fd |-> -1]
             ELSE [exc |-> "none", table |-> [table EXCEPT ![fd] = table[c.a]],
                   fd |-> fd]
    ELSE IF c.op = "dup2"
    THEN [exc |-> "none", table |-> [table EXCEPT ![c.b] = table[c.a]],
          fd |-> c.b]
    ELSE [exc |-> "none", table |-> [table EXCEPT ![c.a] = "closed"], fd |-> -1]

os_open == [op |-> "open", a |-> -1, b |-> -1]
os_dup(a) == [op |-> "dup", a |-> a, b |-> -1]
os_dup2(a, b) == [op |-> "dup2", a |-> a, b |-> b]
os_close(a) == [op |-> "close", a |-> a, b |-> -1]

RECURSIVE Syscalls(_, _, _)
\* The calls of a method body in order, up to the first that raises: the
\* exception or "none", the table afterwards and the descriptors returned.
Syscalls(table, calls, fdsSoFar) ==
    IF calls = <<>> THEN [exc |-> "none", table |-> table, fds |-> fdsSoFar]
    ELSE LET r == Syscall(table, Head(calls))
         IN  IF r.exc # "none"
             THEN [exc |-> r.exc, table |-> r.table, fds |-> fdsSoFar]
             ELSE Syscalls(r.table, Tail(calls), Append(fdsSoFar, r.fd))

\* The process before a manager of class kind is constructed.
StartFds(kind, open) ==
    [pc |-> "new", kind |-> kind,
     table |-> [fd \in Fds |-> IF fd = 0 THEN "stdin"
                               ELSE IF fd = 1 THEN "stdout"
                               ELSE IF fd = 2 THEN "stderr"
                               ELSE IF fd \in open THEN "file" ELSE "closed"],
     null_fds |-> <<>>, save_fds |-> <<>>, exc |-> "none"]

\* The manager after a method whose calls had outcome r: the method raised, or
\* the manager is at pc.
AfterMethod(f, r, pc) ==
    [f EXCEPT !.table = r.table,
              !.pc = IF r.exc = "none" THEN pc ELSE "raised",
              !.exc = r.exc]

\* suppress_stdout.__init__: os.open is tried again after an OSError (the
\* manager stays new); then stdout is duplicated.
SuppressStdoutInit ==
    /\ fds.pc = "new"
    /\ fds.kind = "suppress_stdout"
    /\ LET o == Syscall(fds.table, os_open)
           r == Syscalls(o.table, <<os_dup(1)>>, <<>>)
       IN  fds' = IF o.exc # "none" THEN fds
                  ELSE [AfterMethod(fds, r, "constructed") EXCEPT
                           !.null_fds = <<o.fd>>, !.save_fds = r.fds]
    /\ UNCHANGED <<pred, bfp, call, readers, gen>>

\* suppress_stdout.__enter__
SuppressStdoutEnter ==
    /\ fds.pc = "constructed"
    /\ fds.kind = "suppress_stdout"
    /\ fds' = AfterMethod(fds,
                  Syscalls(fds.table, <<os_dup2(fds.null_fds[1], 1),
                                        os_close(fds.null_fds[1])>>, <<>>),
                  "entered")
    /\ UNCHANGED <<pred, bfp, call, readers, gen>>

\* suppress_stdout.__exit__
SuppressStdoutExit ==
    /\ fds.pc = "entered"
    /\ fds.kind = "suppress_stdout"
    /\ fds' = AfterMethod(fds,
                  Syscalls(fds.table, <<os_dup2(fds.save_fds[1], 1),
                                        os_close(fds.save_fds[1])>>, <<>>),
                  "exited")
    /\ UNCHANGED <<pred, bfp, call, readers, gen>>

\* suppress_stdout_stderr.__init__
SuppressStdoutStderrInit ==
    /\ fds.pc = "new"
    /\ fds.kind = "suppress_stdout_stderr"
    /\ LET o == Syscalls(fds.table, <<os_open, os_open>>, <<>>)
           r == Syscalls(o.table, <<os_dup(1), os_dup(2)>>, <<>>)
       IN  fds' = IF o.exc # "none" THEN AfterMethod(fds, o, "constructed")
                  ELSE [AfterMethod(fds, r, "constructed") EXCEPT
                           !.null_fds = o.fds, !.save_fds = r.fds]
    /\ UNCHANGED <<pred, bfp, call, readers, gen>>

\* suppress_stdout_stderr.__enter__
SuppressStdoutStderrEnter ==
    /\ fds.pc = "constructed"
    /\ fds.kind = "suppress_stdout_stderr"
    /\ fds' = AfterMethod(fds,
                  Syscalls(fds.table, <<os_dup2(fds.null_fds[1], 1),
                                        os_dup2(fds.null_fds[2], 2)>>, <<>>),
                  "entered")
    /\ UNCHANGED <<pred, bfp, call, readers, gen>>

\* suppress_stdout_stderr.__exit__
SuppressStdoutStderrExit ==
    /\ fds.pc = "entered"
    /\ fds.kind = "suppress_stdout_stderr"
    /\ fds' = AfterMethod(fds,
                  Syscalls(fds.table, <<os_dup2(fds.save_fds[1], 1),
                                        os_dup2(fds.save_fds[2], 2),
                                        os_close(fds.null_fds[1]),
                                        os_close(fds.null_fds[2])>>, <<>>),
                  "exited")
    /\ UNCHANGED <<pred, bfp, call, readers, gen>>

\* ------------------------------------------------------------- specifications
\* No run of main and no manager: the value of gen and fds in the
\* specifications of the predictor.
NoRun == [pc |-> "none"]

NoFds == [pc |-> "none"]

\* Calls of batch_size on a Predictor built from declared names and shapes.
InitP ==
    /\ pred \in {Predictor_init("Predictor", n, s) :
                    n \in InputNameLists, s \in InputShapeLists}
    /\ bfp = BilinearInstance(<<1>>, <<1>>, 0)
    /\ call = NoCall
    /\ readers = [r \in Readers |-> IdleReader]
    /\ gen = NoRun
    /\ fds = NoFds

NextP == BatchSize \/ Preprocess \/ Return

SpecP == InitP /\ [][NextP]_vars

\* Calls on a BilinearFeaturePredictor.
Init ==
    /\ pred = Predictor_init("Predictor", <<"x">>, <<<<1>>>>)
    /\ bfp \in BilinearInstances
    /\ call = NoCall
    /\ readers = [r \in Readers |-> IdleReader]
    /\ gen = NoRun
    /\ fds = NoFds

Next ==
    \/ Train
    \/ Predict
    \/ JacobianControl
    \/ Flatten
    \/ Feature
    \/ NextFeature
    \/ FeatureJacobian
    \/ Construct
    \/ Return

Spec == Init /\ [][Next]_vars

\* Readers and one writer on a shared BilinearFeaturePredictor.
InitR ==
    /\ pred = Predictor_init("Predictor", <<"x">>, <<<<1>>>>)
    /\ bfp \in ReaderInstances
    /\ call = NoCall
    /\ readers = [r \in Readers |-> IdleReader]
    /\ gen = NoRun
    /\ fds = NoFds

NextR ==
    \/ ReaderCall
    \/ ReaderFlatten
    \/ ReaderEval
    \/ ReaderReturn
    \/ ReaderTrain

SpecR == InitR /\ [][NextR]_vars

\* One run of generate_data.main for each choice of the arguments.
InitG ==
    /\ pred = Predictor_init("Predictor", <<"x">>, <<<<1>>>>)
    /\ bfp = BilinearInstance(<<1>>, <<1>>, 0)
    /\ call = NoCall
    /\ readers = [r \in Readers |-> IdleReader]
    /\ gen \in {StartRun(N, T, o, v, r) :
                    N \in 0..MaxTrajs, T \in 0..MaxSteps,
                    o \in BOOLEAN, v \in BOOLEAN, r \in BOOLEAN}
    /\ fds = NoFds

NextG ==
    \/ Reserve
    \/ SetupVisualize
    \/ NextTraj
    \/ NextStep
    \/ AddObservation
    \/ Act
    \/ AddAction
    \/ Render
    \/ KeyboardInterrupt
    \/ EnvClose
    \/ WriterFinish
    \/ ContainerClose

\* main is one sequential program: it takes its next step as long as it has
\* one.
SpecG == InitG /\ [][NextG]_vars /\ WF_vars(NextG)

\* One manager of either class, in a process with stdin, stdout and stderr
\* open and any of the other descriptors in use.
InitF ==
    /\ pred = Predictor_init("Predictor", <<"x">>, <<<<1>>>>)
    /\ bfp = BilinearInstance(<<1>>, <<1>>, 0)
    /\ call = NoCall
    /\ readers = [r \in Readers |-> IdleReader]
    /\ gen = NoRun
    /\ fds \in {StartFds(kind, open) :
                    kind \in {"suppress_stdout", "suppress_stdout_stderr"},
                    open \in SUBSET (3..MaxFd)}

NextF ==
    \/ SuppressStdoutInit
    \/ SuppressStdoutEnter
    \/ SuppressStdoutExit
    \/ SuppressStdoutStderrInit
    \/ SuppressStdoutStderrEnter
    \/ SuppressStdoutStderrExit

SpecF == InitF /\ [][NextF]_vars

\* ------------------------------------------------------------- batch_size claims
\* The shape declared for argument i of the recorded batch_size call.
Expected(i) == pred.input_shapes[i]

\* The number of arguments of the recorded call that have a declared shape.
NChecked ==
    Min2(Len(call.args),
         IF call.flag THEN Len(pred.preprocessed_input_shapes)
         ELSE Len(pred.input_shapes))

\* a is a batch of samples of shape s, of any leading dimension.
IsBatchOf(a, s) == Len(a) = Len(s) + 1 /\ Tail(a) = s

FirstBatchSize ==
    IF call.args[1].shape = Expected(1) THEN 0 ELSE call.args[1].shape[1]

\* C2: a batch_size call with two or more arguments returns only if every
\* argument after the first is consistent with the batch size N the first one
\* fixed: of the per-sample shape only when N = 0, or a batch whose leading
\* dimension is N.
C2_LaterArgumentsConsistent ==
    (call.op = "batch_size" /\ Len(call.args) >= 2 /\ call.out.exc = "none") =>
        \A i \in 2..NChecked :
            LET a == call.args[i].shape
            IN  \/ a = Expected(i) /\ FirstBatchSize = 0
                \/ a = <<FirstBatchSize>> \o Expected(i)

\* C3: a batch_size call that returns, returns 0 with every argument of its
\* per-sample shape, or N >= 1 with every argument of shape (N,)+shape.
C3_ReturnValueMeaning ==
    (call.op = "batch_size" /\ call.out.exc = "none") =>
        \/ /\ call.out.val = 0
           /\ \A i \in 1..NChecked : call.args[i].shape = Expected(i)
        \/ /\ call.out.val >= 1
           /\ \A i \in 1..NChecked :
                call.args[i].shape = <<call.out.val>> \o Expected(i)

\* ------------------------------------------------------------- wrapper claims
\* Two outcomes are the same exception or the same returned value.
SameOutcome(a, b) == a.exc = b.exc /\ (a.exc = "none" => a.val = b.val)

\* X is one sample of the declared observation shape, or a batch of N >= 1.
ValidX(X) ==
    \/ X.shape = bfp.x_shape
    \/ IsBatchOf(X.shape, bfp.x_shape) /\ X.shape[1] >= 1

\* U is the control of one sample (when lead is empty) or of N samples.
ValidU(U, lead) == U.shape = lead \o bfp.u_shape

\* (X, U) is one valid sample or one valid batch.
ValidXU(X, U) ==
    /\ ValidX(X)
    /\ ValidU(U, IF X.shape = bfp.x_shape THEN <<>> ELSE <<X.shape[1]>>)

\* C4: with the parameters and X fixed, jacobian_control returns for every
\* other control what the recorded call returned for its control.
C4_JacobianIndependentOfControl ==
    call.op = "jacobian_control" =>
        \A U2 \in Arrays :
            SameOutcome(jacobian_control(bfp, call.args[1], U2), call.out)

\* jacobian_control returned the Jacobian of a valid (X, U) under fitted
\* parameters, and another control of the same shape exists.
C4_Witness ==
    /\ call.op = "jacobian_control"
    /\ call.out.exc = "none"
    /\ ValidXU(call.args[1], call.args[2])
    /\ bfp.Q # Params(0, bfp.y_dim, bfp.u_dim).Q
    /\ \E U2 \in Arrays : /\ U2.shape = call.args[2].shape
                          /\ U2.data # call.args[2].data

\* C5: feature_jacobian(X, U) on a valid (X, U) returns the pair
\* (jacobian_control(X, U), next_feature(X, U)).
C5_FeatureJacobianPair ==
    (call.op = "feature_jacobian" /\ ValidXU(call.args[1], call.args[2])) =>
        /\ call.out.exc = "none"
        /\ SameOutcome(Ret(call.out.val[1]),
                       jacobian_control(bfp, call.args[1], call.args[2]))
        /\ SameOutcome(Ret(call.out.val[2]),
                       next_feature(bfp, call.args[1], call.args[2]))

\* C6: next_feature(X, U) on a valid (X, U) returns what predict(X, U)
\* returns, and does not fail.
C6_NextFeatureIsPredict ==
    (call.op = "next_feature" /\ ValidXU(call.args[1], call.args[2])) =>
        /\ call.out.exc = "none"
        /\ SameOutcome(call.out, predict(bfp, call.args[1], call.args[2]))

\* C7: feature(X) on a valid X returns what flatten(X) returns.
C7_FeatureIsFlatten ==
    (call.op = "feature" /\ ValidX(call.args[1])) =>
        /\ call.out.exc = "none"
        /\ SameOutcome(call.out, flatten(bfp, call.args[1]))

C9_BadControlShapeFailsAtConstruction ==
    [][(call'.op = "__init__" /\ ~IsControlShape(call'.args[2])) =>
            (call'.out.exc # "none" /\ bfp' = bfp)]_vars

\* A construction with a control shape of two columns has raised.
C9_Witness ==
    /\ call.op = "__init__"
    /\ call.args[2] = <<1, 2>>
    /\ call.out.exc # "none"

\* C10: constructing with a control shape (Du,) or (Du,1) returns an instance
\* with Dy = prod(x_shape) and Du = u_shape[0]; no train, predict,
\* jacobian_control or flatten call changes x_shape, u_shape, Dy or Du.
C10_ConstructionFixesDimensions ==
    [][/\ (call'.op = "__init__" /\ IsControlShape(call'.args[2])) =>
            /\ call'.out.exc = "none"
            /\ bfp'.x_shape = call'.args[1]
            /\ bfp'.u_shape = call'.args[2]
            /\ bfp'.y_dim = Prod(call'.args[1])
            /\ bfp'.u_dim = call'.args[2][1]
       /\ call'.op \in {"train", "predict", "jacobian_control", "flatten"} =>
            /\ bfp'.x_shape = bfp.x_shape
            /\ bfp'.u_shape = bfp.u_shape
            /\ bfp'.y_dim = bfp.y_dim
            /\ bfp'.u_dim = bfp.u_dim]_vars

\* ------------------------------------------------------------- batch claims
\* C11: predict on a batch X of shape (N,)+x_shape with controls of shape
\* (N, Du), N >= 1, returns in row i what predict returns on the single sample
\* (X[i], U[i]); row i of flatten(X) is flatten(X[i]).
C11_BatchEqualsSingle ==
    (/\ call.op = "predict"
     /\ IsBatchOf(call.args[1].shape, bfp.x_shape)
     /\ call.args[1].shape[1] >= 1
     /\ call.args[2].shape = <<call.args[1].shape[1], bfp.u_dim>>) =>
        LET X == call.args[1]
            U == call.args[2]
            Y == flatten(bfp, X)
        IN  /\ call.out.exc = "none"
            /\ \A i \in 1..X.shape[1] :
                LET one == predict(bfp, Sample(X, i), Sample(U, i))
                    y == flatten(bfp, Sample(X, i))
                IN  /\ one.exc = "none"
                    /\ one.val.data = Row(call.out.val.data, i, bfp.y_dim)
                    /\ y.exc = "none"
                    /\ y.val.data = Row(Y.val.data, i, bfp.y_dim)

\* C13: flatten decides "batched" as batch_size does on the same array with
\* the expected shape x_shape: flatten returns a batch (N, Dy) exactly when
\* batch_size returns N > 0, and one sample (Dy,) exactly when batch_size
\* returns 0.
C13_FlattenAgreesWithBatchSize ==
    call.op = "flatten" =>
        LET X == call.args[1]
            bs == batch_size(Predictor_init("Predictor", <<"x">>, <<bfp.x_shape>>),
                             <<X>>, FALSE)
        IN  /\ (bs.exc = "none" /\ bs.val > 0) <=>
                (call.out.exc = "none"
                 /\ Len(call.out.val.shape) = 2
                 /\ call.out.val.shape = <<X.shape[1], bfp.y_dim>>)
            /\ (bs.exc = "none" /\ bs.val = 0) <=>
                (call.out.exc = "none" /\ call.out.val.shape = <<bfp.y_dim>>)

\* ------------------------------------------------------------- reader claims
\* The four parameter tensors of an instance.
Parameters(self) == <<self.Q, self.R, self.S, self.b>>

\* What the call of reader r returns when it runs alone on the instance as it
\* is when the call begins.
Alone(r) ==
    IF readers[r].op = "predict"
    THEN predict(readers[r].self0, readers[r].X, readers[r].U)
    ELSE jacobian_control(readers[r].self0, readers[r].X, readers[r].U)

\* C12: a step of a predict or jacobian_control call (its flatten included)
\* leaves Q, R, S, b and the call's input arrays unchanged, so only train
\* writes the parameters; and every call that finishes with no train run since
\* it began, however it interleaves with the other readers, returns what it
\* returns when run alone.
C12_ReadersDoNotInterfere ==
    [][/\ \A r \in Readers :
            readers'[r].pc # readers[r].pc =>
                /\ Parameters(bfp') = Parameters(bfp)
                /\ readers[r].pc \in {"flatten", "eval"} =>
                      (readers'[r].X = readers[r].X /\ readers'[r].U = readers[r].U)
       /\ \A r \in Readers :
            (readers'[r].pc = "done" /\ readers'[r].clean) =>
                SameOutcome(readers'[r].out, Alone(r)')]_vars

\* A predict call has returned a value under fitted parameters, with no train
\* since it began, while the other reader is in the middle of its own call.
C12_Witness ==
    /\ readers[1].pc = "done"
    /\ readers[1].op = "predict"
    /\ readers[1].clean
    /\ readers[1].out.exc = "none"
    /\ readers[2].pc = "eval"
    /\ bfp.Q # Params(0, bfp.y_dim, bfp.u_dim).Q

\* ------------------------------------------------------------- preprocess claim
\* C14: preprocess on inputs that batch_size accepts, one per declared input.
\* With batch size 0 it returns one entry per input, the input's transformer
\* applied to it.  With batch size N > 0 it returns, without raising, one array
\* per input whose leading dimension is N and whose i-th entry is the
\* corresponding entry of preprocess applied to the i-th samples of the inputs.
C14_PreprocessBatches ==
    LET inputs == call.args
        bs == batch_size(pred, inputs, FALSE)
    IN  (/\ call.op = "preprocess"
         /\ Len(inputs) = Len(pred.input_names)
         /\ Len(inputs) = Len(pred.input_shapes)
         /\ bs.exc = "none") =>
            /\ call.out.exc = "none"
            /\ Len(call.out.val) = Len(inputs)
            /\ bs.val = 0 =>
                 \A k \in 1..Len(inputs) :
                    call.out.val[k] = Transformer_preprocess(inputs[k])
            /\ bs.val > 0 =>
                 \A k \in 1..Len(inputs) :
                    /\ call.out.val[k].shape[1] = bs.val
                    /\ \A i \in 1..bs.val :
                         LET one == preprocess(pred, [j \in 1..Len(inputs) |->
                                                         Sample(inputs[j], i)])
                         IN  /\ one.exc = "none"
                             /\ Sample(call.out.val[k], i) = one.val[k]

\* ------------------------------------------------------------- generate_data claims
\* The slots reserved at lines 41-42: sensor/state (i, 0..T) and
\* action/state_diff (i, 0..T-1) for each trajectory i.
ReservedSlots ==
    {Slot("sensor", i, t) : i \in 0..(gen.N - 1), t \in 0..gen.T}
    \cup {Slot("action", i, t) : i \in 0..(gen.N - 1), t \in 0..(gen.T - 1)}

\* C15: with an output container every write stays inside the reserved
\* ranges and no slot is written twice; after a run in which the loop over the
\* trajectories runs to its end every reserved slot is written, T+1
\* sensor/state slots and T action/state_diff slots per trajectory, N*T
\* action data points in total.
C15_WritesFillReservedSlots ==
    (gen.pc # "none" /\ gen.output_dir) =>
        /\ gen.written \subseteq ReservedSlots
        /\ gen.rewritten = {}
        /\ (gen.pc = "done" /\ gen.traj_iter = gen.N) =>
              /\ gen.written = ReservedSlots
              /\ Cardinality({w \in gen.written : w[1] = "action"}) = gen.N * gen.T

\* The cleanup calls main owes, in order.
ExpectedCleanup ==
    <<"env.close">>
    \o (IF gen.record_file THEN <<"writer.finish">> ELSE <<>>)
    \o (IF gen.output_dir THEN <<"container.close">> ELSE <<>>)

\* s is an initial part of t.
IsPrefix(s, t) == Len(s) <= Len(t) /\ \A i \in 1..Len(s) : s[i] = t[i]

\* C16: once the loop over the trajectories is left, env.close(), then
\* writer.finish() if a record file was given, then container.close() if an
\* output directory was given are each called exactly once, in this order;
\* and writer.grab_frame() is called only with the writer set up.
C16_CleanupRunsOnce ==
    /\ [](gen.pc # "none" =>
            /\ IsPrefix(gen.cleanup, ExpectedCleanup)
            /\ gen.grabbed => gen.writer)
    /\ [](gen.pc = "close" =>
            <>(gen.pc = "done" /\ gen.cleanup = ExpectedCleanup))

\* A run with a record file and an output directory was left by a failure of
\* the visualization and has made its three cleanup calls.
C16_Witness ==
    /\ gen.pc = "done"
    /\ gen.done
    /\ gen.traj_iter < gen.N
    /\ gen.record_file
    /\ gen.output_dir
    /\ gen.cleanup = <<"env.close", "writer.finish", "container.close">>

\* ------------------------------------------------------------- suppress_stdout claim
\* The descriptors the manager opened or duplicated.
Owned == {fds.null_fds[i] : i \in 1..Len(fds.null_fds)}
         \cup {fds.save_fds[i] : i \in 1..Len(fds.save_fds)}

\* C17: for both managers no call closes or uses a closed descriptor; inside
\* the block descriptor 1 (and 2 for suppress_stdout_stderr) refers to the null
\* device; after __exit__ descriptors 1 and 2 refer to the original streams
\* and no descriptor the manager opened or duplicated is still open.
C17_DescriptorsRestoredAndClosed ==
    fds.pc # "none" =>
        /\ fds.exc # "EBADF"
        /\ fds.pc = "entered" =>
              /\ fds.table[1] = "null"
              /\ fds.table[2] =
                    (IF fds.kind = "suppress_stdout_stderr" THEN "null" ELSE "stderr")
        /\ fds.pc = "exited" =>
              /\ fds.table[1] = "stdout"
              /\ fds.table[2] = "stderr"
              /\ \A fd \in Owned : fds.table[fd] = "closed"

====
